---- MODULE Spec2Model ----
(***************************************************************************)
(* Model of the ledger engine of csv_reader (src/transaction.rs).          *)
(*                                                                         *)
(* Transaction::handle_transactions folds a list of transactions over a    *)
(* Vec<Client>.  One step of the model is one iteration of that loop: a    *)
(* transaction t is drawn from the bounded input alphabet and the handler  *)
(* selected by t.tx_type is applied to the store.  Amounts are exact       *)
(* decimals in the program; here they are integers counted in the          *)
(* smallest unit of the input.  Option<Decimal> is a sequence of length    *)
(* zero (None) or one (Some).                                              *)
(***************************************************************************)
EXTENDS Integers, Sequences, FiniteSets

\* clients: the Vec<Client> of handle_transactions
\* t:       the record the loop handled last
\* before:  the value of clients when the loop took t
VARIABLES clients, t, before

vars == <<clients, t, before>>

\* ------------------------------------------------------------------ bounds
MaxClient == 2
MaxTx == 2
MaxAmount == 1
MaxHistory == 4
MaxDeepHistory == 6

ClientIds == 1..MaxClient
TxIds == 1..MaxTx

None == <<>>
Some(a) == <<a>>

\* the amounts of the deposit and withdrawal records of the input: present
\* and positive; dispute, resolve and chargeback records carry none
Amounts == {Some(a) : a \in 1..MaxAmount}

\* a deserialized record: disputed is skipped by the deserializer and so false
Transaction(type, c, x, a) ==
    [tx_type |-> type, client_id |-> c, tx_id |-> x, amount |-> a,
     disputed |-> FALSE]

\* ------------------------------------------------------------- operators
amount(self) == IF self.amount = None THEN 0 ELSE self.amount[1]

Min(S) == CHOOSE m \in S : \A o \in S : m <= o

\* find_client that falls back on the first unlocked account
find_client_or_first(self, cs) ==
    LET S == {k \in DOMAIN cs :
                cs[k].client_id = self.client_id /\ ~cs[k].locked}
        U == {k \in DOMAIN cs : ~cs[k].locked}
    IN  IF S # {} THEN Min(S) ELSE IF U # {} THEN Min(U) ELSE 0

\* find_client without the test of the lock
find_client_ignoring_lock(self, cs) ==
    LET S == {k \in DOMAIN cs : cs[k].client_id = self.client_id}
    IN  IF S = {} THEN 0 ELSE Min(S)

\* Iterator::find over the client vector: position of the first match, 0 if none
find_client(self, cs) ==
    LET S == {k \in DOMAIN cs :
                cs[k].client_id = self.client_id /\ ~cs[k].locked}
    IN  IF S = {} THEN 0 ELSE Min(S)

\* the lookup of deposit, which does not look at the lock
find_any_client(self, cs) ==
    LET S == {k \in DOMAIN cs : cs[k].client_id = self.client_id}
    IN  IF S = {} THEN 0 ELSE Min(S)

\* Iterator::find over a client's transactions by tx_id
find_tx(self, txs) ==
    LET S == {k \in DOMAIN txs : txs[k].tx_id = self.tx_id}
    IN  IF S = {} THEN 0 ELSE Min(S)

Client(self) ==
    [client_id |-> self.client_id,
     available_funds |-> amount(self),
     held_funds |-> 0,
     total_funds |-> amount(self),
     locked |-> FALSE,
     transactions |-> <<self>>]

\* deposit that opens a fresh account in place of a locked one
deposit_reopening(self, cs) ==
    LET k == find_any_client(self, cs)
    IN  IF k = 0
        THEN Append(cs, Client(self))
        ELSE IF ~cs[k].locked
             THEN [cs EXCEPT ![k] =
                     [@ EXCEPT !.available_funds = @ + amount(self),
                               !.total_funds = @ + amount(self),
                               !.transactions = Append(@, self)]]
             ELSE [cs EXCEPT ![k] = Client(self)]

\* deposit without the test of the lock
deposit_ignoring_lock(self, cs) ==
    LET k == find_any_client(self, cs)
    IN  IF k = 0
        THEN Append(cs, Client(self))
        ELSE [cs EXCEPT ![k] =
                [@ EXCEPT !.available_funds = @ + amount(self),
                          !.total_funds = @ + amount(self),
                          !.transactions = Append(@, self)]]

\* deposit that credits available_funds of an existing account but not
\* total_funds
deposit_available_only(self, cs) ==
    LET k == find_any_client(self, cs)
    IN  IF k = 0
        THEN Append(cs, Client(self))
        ELSE IF ~cs[k].locked
             THEN [cs EXCEPT ![k] =
                     [@ EXCEPT !.available_funds = @ + amount(self),
                               !.transactions = Append(@, self)]]
             ELSE cs

\* deposit that looks its client up among the unlocked accounts only
deposit_unlocked_lookup(self, cs) ==
    LET k == find_client(self, cs)
    IN  IF k = 0
        THEN Append(cs, Client(self))
        ELSE [cs EXCEPT ![k] =
                [@ EXCEPT !.available_funds = @ + amount(self),
                          !.total_funds = @ + amount(self),
                          !.transactions = Append(@, self)]]

deposit(self, cs) ==
    LET k == find_any_client(self, cs)
    IN  IF k = 0
        THEN Append(cs, Client(self))
        ELSE IF ~cs[k].locked
             THEN [cs EXCEPT ![k] =
                     [@ EXCEPT !.available_funds = @ + amount(self),
                               !.total_funds = @ + amount(self),
                               !.transactions = Append(@, self)]]
             ELSE cs

\* the guard of withdrawal with strict comparisons
sufficient_funds_strict(self, c) ==
    c.available_funds > amount(self) /\ c.total_funds > amount(self)

\* the guard of withdrawal reduced to its test of total_funds
sufficient_total(self, c) == c.total_funds >= amount(self)

\* the guard of withdrawal
sufficient_funds(self, c) ==
    c.available_funds >= amount(self) /\ c.total_funds >= amount(self)

\* withdrawal that takes the amount from total_funds only
withdrawal_total_only(self, cs) ==
    LET k == find_client(self, cs)
    IN  IF k = 0
        THEN cs
        ELSE IF sufficient_funds(self, cs[k])
             THEN [cs EXCEPT ![k] =
                     [@ EXCEPT !.total_funds = @ - amount(self),
                               !.transactions = Append(@, self)]]
             ELSE cs

\* withdrawal that takes the funds without a record in the history
withdrawal_unrecorded(self, cs) ==
    LET k == find_client(self, cs)
    IN  IF k = 0
        THEN cs
        ELSE IF sufficient_funds(self, cs[k])
             THEN [cs EXCEPT ![k] =
                     [@ EXCEPT !.available_funds = @ - amount(self),
                               !.total_funds = @ - amount(self)]]
             ELSE cs

\* withdrawal that opens an empty account for a client it does not find
withdrawal_opening(self, cs) ==
    LET k == find_client(self, cs)
    IN  IF k = 0
        THEN Append(cs, [Client(self) EXCEPT !.available_funds = 0,
                                             !.total_funds = 0])
        ELSE IF sufficient_funds(self, cs[k])
             THEN [cs EXCEPT ![k] =
                     [@ EXCEPT !.available_funds = @ - amount(self),
                               !.total_funds = @ - amount(self),
                               !.transactions = Append(@, self)]]
             ELSE cs

withdrawal(self, cs) ==
    LET k == find_client(self, cs)
    IN  IF k = 0
        THEN cs
        ELSE IF sufficient_funds(self, cs[k])
             THEN [cs EXCEPT ![k] =
                     [@ EXCEPT !.available_funds = @ - amount(self),
                               !.total_funds = @ - amount(self),
                               !.transactions = Append(@, self)]]
             ELSE cs

\* dispute that records itself in the history also when its tx_id is unknown
dispute_recording_unknown(self, cs) ==
    LET k == find_client(self, cs)
    IN  IF k = 0
        THEN cs
        ELSE LET j == find_tx(self, cs[k].transactions)
             IN  IF j = 0
                 THEN [cs EXCEPT ![k].transactions = Append(@, self)]
                 ELSE LET tx == cs[k].transactions[j]
                      IN  [cs EXCEPT ![k] =
                            [@ EXCEPT
                               !.available_funds = @ - amount(tx),
                               !.held_funds = @ + amount(tx),
                               !.transactions =
                                  Append([@ EXCEPT ![j].disputed = TRUE],
                                         self)]]

\* dispute that looks the tx_id up in the histories of all unlocked accounts
dispute_by_tx(self, cs) ==
    LET S == {k \in DOMAIN cs :
                ~cs[k].locked /\ find_tx(self, cs[k].transactions) # 0}
    IN  IF S = {}
        THEN cs
        ELSE LET k == Min(S)
                 j == find_tx(self, cs[k].transactions)
                 tx == cs[k].transactions[j]
             IN  [cs EXCEPT ![k] =
                    [@ EXCEPT
                       !.available_funds = @ - amount(tx),
                       !.held_funds = @ + amount(tx),
                       !.transactions =
                          Append([@ EXCEPT ![j].disputed = TRUE], self)]]

\* dispute that moves the amount of the dispute record itself
dispute_own_amount(self, cs) ==
    LET k == find_client(self, cs)
    IN  IF k = 0
        THEN cs
        ELSE LET j == find_tx(self, cs[k].transactions)
             IN  IF j = 0
                 THEN cs
                 ELSE [cs EXCEPT ![k] =
                         [@ EXCEPT
                            !.available_funds = @ - amount(self),
                            !.held_funds = @ + amount(self),
                            !.transactions =
                               Append([@ EXCEPT ![j].disputed = TRUE],
                                      self)]]

dispute(self, cs) ==
    LET k == find_client(self, cs)
    IN  IF k = 0
        THEN cs
        ELSE LET j == find_tx(self, cs[k].transactions)
             IN  IF j = 0
                 THEN cs
                 ELSE LET tx == cs[k].transactions[j]
                      IN  [cs EXCEPT ![k] =
                            [@ EXCEPT
                               !.available_funds = @ - amount(tx),
                               !.held_funds = @ + amount(tx),
                               !.transactions =
                                  Append([@ EXCEPT ![j].disputed = TRUE],
                                         self)]]

\* resolve that looks the tx_id up in the histories of all unlocked accounts
resolve_by_tx(self, cs) ==
    LET S == {k \in DOMAIN cs :
                ~cs[k].locked /\ find_tx(self, cs[k].transactions) # 0}
    IN  IF S = {}
        THEN cs
        ELSE LET k == Min(S)
                 j == find_tx(self, cs[k].transactions)
                 tx == cs[k].transactions[j]
             IN  IF tx.disputed
                 THEN [cs EXCEPT ![k] =
                        [@ EXCEPT
                           !.held_funds = @ - amount(tx),
                           !.available_funds = @ + amount(tx),
                           !.transactions =
                              Append([@ EXCEPT ![j].disputed = FALSE], self)]]
                 ELSE cs

\* resolve that moves the amount of the resolve record itself
resolve_own_amount(self, cs) ==
    LET k == find_client(self, cs)
    IN  IF k = 0
        THEN cs
        ELSE LET j == find_tx(self, cs[k].transactions)
             IN  IF j = 0
                 THEN cs
                 ELSE LET tx == cs[k].transactions[j]
                      IN  IF tx.disputed
                          THEN [cs EXCEPT ![k] =
                                 [@ EXCEPT
                                    !.held_funds = @ - amount(self),
                                    !.available_funds = @ + amount(self),
                                    !.transactions =
                                       Append([@ EXCEPT ![j].disputed = FALSE],
                                              self)]]
                          ELSE cs

\* resolve without the test of the disputed flag
resolve_unchecked(self, cs) ==
    LET k == find_client(self, cs)
    IN  IF k = 0
        THEN cs
        ELSE LET j == find_tx(self, cs[k].transactions)
             IN  IF j = 0
                 THEN cs
                 ELSE LET tx == cs[k].transactions[j]
                      IN  [cs EXCEPT ![k] =
                             [@ EXCEPT
                                !.held_funds = @ - amount(tx),
                                !.available_funds = @ + amount(tx),
                                !.transactions =
                                   Append([@ EXCEPT ![j].disputed = FALSE],
                                          self)]]

resolve(self, cs) ==
    LET k == find_client(self, cs)
    IN  IF k = 0
        THEN cs
        ELSE LET j == find_tx(self, cs[k].transactions)
             IN  IF j = 0
                 THEN cs
                 ELSE LET tx == cs[k].transactions[j]
                      IN  IF tx.disputed
                          THEN [cs EXCEPT ![k] =
                                 [@ EXCEPT
                                    !.held_funds = @ - amount(tx),
                                    !.available_funds = @ + amount(tx),
                                    !.transactions =
                                       Append([@ EXCEPT ![j].disputed = FALSE],
                                              self)]]
                          ELSE cs

\* chargeback_total that treats every transaction as a deposit
chargeback_total_subtracting(tx, total) == total - amount(tx)

\* total_funds after the chargeback of tx
chargeback_total(tx, total) ==
    IF tx.tx_type = "deposit"
    THEN total - amount(tx)
    ELSE total - (0 - amount(tx))

\* chargeback that leaves the account unlocked
chargeback_not_locking(self, cs) ==
    LET k == find_client(self, cs)
    IN  IF k = 0
        THEN cs
        ELSE LET j == find_tx(self, cs[k].transactions)
             IN  IF j = 0
                 THEN cs
                 ELSE LET tx == cs[k].transactions[j]
                      IN  IF tx.disputed
                          THEN [cs EXCEPT ![k] =
                                 [@ EXCEPT
                                    !.total_funds = chargeback_total(tx, @),
                                    !.held_funds = @ - amount(tx),
                                    !.transactions =
                                       Append([@ EXCEPT ![j].disputed = FALSE],
                                              self)]]
                          ELSE cs

\* chargeback without the test of the disputed flag
chargeback_unchecked(self, cs) ==
    LET k == find_client(self, cs)
    IN  IF k = 0
        THEN cs
        ELSE LET j == find_tx(self, cs[k].transactions)
             IN  IF j = 0
                 THEN cs
                 ELSE LET tx == cs[k].transactions[j]
                      IN  [cs EXCEPT ![k] =
                             [@ EXCEPT
                                !.total_funds = chargeback_total(tx, @),
                                !.held_funds = @ - amount(tx),
                                !.transactions =
                                   Append([@ EXCEPT ![j].disputed = FALSE],
                                          self),
                                !.locked = TRUE]]

\* chargeback with the two branches of total_funds exchanged
chargeback_exchanged(self, cs) ==
    LET k == find_client(self, cs)
    IN  IF k = 0
        THEN cs
        ELSE LET j == find_tx(self, cs[k].transactions)
             IN  IF j = 0
                 THEN cs
                 ELSE LET tx == cs[k].transactions[j]
                      IN  IF tx.disputed
                          THEN [cs EXCEPT ![k] =
                                 [@ EXCEPT
                                    !.total_funds =
                                       IF tx.tx_type = "deposit"
                                       THEN @ + amount(tx)
                                       ELSE @ - amount(tx),
                                    !.held_funds = @ - amount(tx),
                                    !.transactions =
                                       Append([@ EXCEPT ![j].disputed = FALSE],
                                              self),
                                    !.locked = TRUE]]
                          ELSE cs

chargeback(self, cs) ==
    LET k == find_client(self, cs)
    IN  IF k = 0
        THEN cs
        ELSE LET j == find_tx(self, cs[k].transactions)
             IN  IF j = 0
                 THEN cs
                 ELSE LET tx == cs[k].transactions[j]
                      IN  IF tx.disputed
                          THEN [cs EXCEPT ![k] =
                                 [@ EXCEPT
                                    !.total_funds = chargeback_total(tx, @),
                                    !.held_funds = @ - amount(tx),
                                    !.transactions =
                                       Append([@ EXCEPT ![j].disputed = FALSE],
                                              self),
                                    !.locked = TRUE]]
                          ELSE cs

\* the match on tx_type in the loop of handle_transactions
handle_transaction(self, cs) ==
    CASE self.tx_type = "deposit" -> deposit(self, cs)
      [] self.tx_type = "withdrawal" -> withdrawal(self, cs)
      [] self.tx_type = "dispute" -> dispute(self, cs)
      [] self.tx_type = "resolve" -> resolve(self, cs)
      [] self.tx_type = "chargeback" -> chargeback(self, cs)
      [] OTHER -> cs

\* ---------------------------------------------------------- state machine
RECURSIVE HistorySize(_)
HistorySize(cs) ==
    IF cs = <<>> THEN 0
    ELSE Len(Head(cs).transactions) + HistorySize(Tail(cs))

NoTransaction == Transaction("", 0, 0, None)

Init ==
    /\ clients = <<>>
    /\ before = <<>>
    /\ t = NoTransaction

\* The handlers use client_id and tx_id only as keys compared with ==, the
\* tx_id only inside the history of one client.  Renaming the client ids, and
\* the tx ids of each client, therefore maps runs to runs, and of each class
\* of renamed inputs only one is enumerated: a client id that has no account
\* yet is the smallest such id, and a tx id that is not yet in the history of
\* its client is the smallest such id.  The ids in use are then 1..n, and the
\* smallest unused one is n + 1.
FreshClientId(cs) ==
    Cardinality({cs[k].client_id : k \in DOMAIN cs}) + 1

FreshTxId(txs) ==
    Cardinality({txs[j].tx_id : j \in DOMAIN txs}) + 1

CanonicalIds(tx, cs) ==
    LET k == find_any_client(tx, cs)
    IN  IF k = 0
        THEN tx.client_id = FreshClientId(cs) /\ tx.tx_id = 1
        ELSE tx.tx_id <= FreshTxId(cs[k].transactions)

\* one iteration of the loop of handle_transactions on the record tx, as
\* long as the histories hold fewer than bound entries
Step(tx, after, bound) ==
    /\ HistorySize(clients) < bound
    /\ CanonicalIds(tx, clients)
    /\ t' = tx
    /\ before' = clients
    /\ clients' = after

\* the arms of the match on tx_type, for records of the clients C with the
\* amounts A
DepositOf(C, A, bound) ==
    \E c \in C, x \in TxIds, a \in A :
        LET tx == Transaction("deposit", c, x, a)
        IN  Step(tx, deposit(tx, clients), bound)

WithdrawalOf(C, A, bound) ==
    \E c \in C, x \in TxIds, a \in A :
        LET tx == Transaction("withdrawal", c, x, a)
        IN  Step(tx, withdrawal(tx, clients), bound)

DisputeOf(C, bound) ==
    \E c \in C, x \in TxIds :
        LET tx == Transaction("dispute", c, x, None)
        IN  Step(tx, dispute(tx, clients), bound)

ResolveOf(C, bound) ==
    \E c \in C, x \in TxIds :
        LET tx == Transaction("resolve", c, x, None)
        IN  Step(tx, resolve(tx, clients), bound)

ChargebackOf(C, bound) ==
    \E c \in C, x \in TxIds :
        LET tx == Transaction("chargeback", c, x, None)
        IN  Step(tx, chargeback(tx, clients), bound)

\* a record of any other type is reported and skipped
InvalidOf(C, bound) ==
    \E c \in C, x \in TxIds :
        LET tx == Transaction("invalid", c, x, None)
        IN  Step(tx, clients, bound)

\* any input over the whole alphabet
Deposit == DepositOf(ClientIds, Amounts, MaxHistory)
Withdrawal == WithdrawalOf(ClientIds, Amounts, MaxHistory)
Dispute == DisputeOf(ClientIds, MaxHistory)
Resolve == ResolveOf(ClientIds, MaxHistory)
Chargeback == ChargebackOf(ClientIds, MaxHistory)
Invalid == InvalidOf(ClientIds, MaxHistory)

Next ==
    \/ Deposit
    \/ Withdrawal
    \/ Dispute
    \/ Resolve
    \/ Chargeback
    \/ Invalid

Spec == Init /\ [][Next]_vars

\* The longer inputs of one client whose deposits and withdrawals all carry
\* the same amount: long enough for an account to be locked while another of
\* its transactions is under dispute.
OneClient == {Min(ClientIds)}
OneAmount == {Some(Min(1..MaxAmount))}

DeepDeposit == DepositOf(OneClient, OneAmount, MaxDeepHistory)
DeepWithdrawal == WithdrawalOf(OneClient, OneAmount, MaxDeepHistory)
DeepDispute == DisputeOf(OneClient, MaxDeepHistory)
DeepResolve == ResolveOf(OneClient, MaxDeepHistory)
DeepChargeback == ChargebackOf(OneClient, MaxDeepHistory)
DeepInvalid == InvalidOf(OneClient, MaxDeepHistory)

DeepNext ==
    \/ DeepDeposit
    \/ DeepWithdrawal
    \/ DeepDispute
    \/ DeepResolve
    \/ DeepChargeback
    \/ DeepInvalid

SpecDeep == Init /\ [][DeepNext]_vars

\* ------------------------------------------------- the engine of main.rs
\* src/main.rs holds a second copy of the engine, as free functions over
\* f64 amounts.  The amounts of the model are small integers, on which f64
\* arithmetic is exact.
main_amount(self) == IF self.amount = None THEN 0 ELSE self.amount[1]

main_find_client(cs, transaction) ==
    LET S == {k \in DOMAIN cs :
                cs[k].client_id = transaction.client_id /\ ~cs[k].locked}
    IN  IF S = {} THEN 0 ELSE Min(S)

main_deposit(cs, transaction) ==
    LET k == main_find_client(cs, transaction)
    IN  IF k = 0
        THEN Append(cs, [client_id |-> transaction.client_id,
                         available_funds |-> main_amount(transaction),
                         held_funds |-> 0,
                         total_funds |-> main_amount(transaction),
                         locked |-> FALSE,
                         transactions |-> <<transaction>>])
        ELSE [cs EXCEPT ![k] =
                [@ EXCEPT
                   !.available_funds = @ + main_amount(transaction),
                   !.total_funds = @ + main_amount(transaction),
                   !.transactions = Append(@, transaction)]]

main_withdrawal(cs, transaction) ==
    LET k == main_find_client(cs, transaction)
    IN  IF k = 0
        THEN cs
        ELSE IF cs[k].available_funds >= main_amount(transaction)
                /\ cs[k].total_funds >= main_amount(transaction)
             THEN [cs EXCEPT ![k] =
                     [@ EXCEPT
                        !.available_funds = @ - main_amount(transaction),
                        !.total_funds = @ - main_amount(transaction),
                        !.transactions = Append(@, transaction)]]
             ELSE cs

main_dispute(cs, transaction) ==
    LET k == main_find_client(cs, transaction)
    IN  IF k = 0
        THEN cs
        ELSE LET j == find_tx(transaction, cs[k].transactions)
             IN  IF j = 0
                 THEN cs
                 ELSE LET tx == cs[k].transactions[j]
                      IN  [cs EXCEPT ![k] =
                             [@ EXCEPT
                                !.available_funds = @ - main_amount(tx),
                                !.held_funds = @ + main_amount(tx),
                                !.transactions =
                                   Append([@ EXCEPT ![j].disputed = TRUE],
                                          transaction)]]

main_resolve(cs, transaction) ==
    LET k == main_find_client(cs, transaction)
    IN  IF k = 0
        THEN cs
        ELSE LET j == find_tx(transaction, cs[k].transactions)
             IN  IF j = 0
                 THEN cs
                 ELSE LET tx == cs[k].transactions[j]
                      IN  IF tx.disputed
                          THEN [cs EXCEPT ![k] =
                                 [@ EXCEPT
                                    !.held_funds = @ - main_amount(tx),
                                    !.available_funds = @ + main_amount(tx),
                                    !.transactions =
                                       Append([@ EXCEPT ![j].disputed = FALSE],
                                              transaction)]]
                          ELSE cs

main_chargeback(cs, transaction) ==
    LET k == main_find_client(cs, transaction)
    IN  IF k = 0
        THEN cs
        ELSE LET j == find_tx(transaction, cs[k].transactions)
             IN  IF j = 0
                 THEN cs
                 ELSE LET tx == cs[k].transactions[j]
                      IN  IF tx.disputed
                          THEN [cs EXCEPT ![k] =
                                 [@ EXCEPT
                                    !.total_funds =
                                       IF tx.tx_type = "deposit"
                                       THEN @ - main_amount(tx)
                                       ELSE @ - (0 - main_amount(tx)),
                                    !.held_funds = @ - main_amount(tx),
                                    !.transactions =
                                       Append([@ EXCEPT ![j].disputed = FALSE],
                                              transaction),
                                    !.locked = TRUE]]
                          ELSE cs

\* the loop of handle_transactions of main.rs
MainDeposit ==
    \E c \in ClientIds, x \in TxIds, a \in Amounts :
        LET tx == Transaction("deposit", c, x, a)
        IN  Step(tx, main_deposit(clients, tx), MaxHistory)

MainWithdrawal ==
    \E c \in ClientIds, x \in TxIds, a \in Amounts :
        LET tx == Transaction("withdrawal", c, x, a)
        IN  Step(tx, main_withdrawal(clients, tx), MaxHistory)

MainDispute ==
    \E c \in ClientIds, x \in TxIds :
        LET tx == Transaction("dispute", c, x, None)
        IN  Step(tx, main_dispute(clients, tx), MaxHistory)

MainResolve ==
    \E c \in ClientIds, x \in TxIds :
        LET tx == Transaction("resolve", c, x, None)
        IN  Step(tx, main_resolve(clients, tx), MaxHistory)

MainChargeback ==
    \E c \in ClientIds, x \in TxIds :
        LET tx == Transaction("chargeback", c, x, None)
        IN  Step(tx, main_chargeback(clients, tx), MaxHistory)

\* a record of any other type is skipped
MainInvalid ==
    \E c \in ClientIds, x \in TxIds :
        LET tx == Transaction("invalid", c, x, None)
        IN  Step(tx, clients, MaxHistory)

MainNext ==
    \/ MainDeposit
    \/ MainWithdrawal
    \/ MainDispute
    \/ MainResolve
    \/ MainChargeback
    \/ MainInvalid

SpecMain == Init /\ [][MainNext]_vars

\* ---------------------------------------------------------------- claims
\* position of the account of client c in the store cs, 0 if there is none
AccountOf(cs, c) ==
    IF \E k \in DOMAIN cs : cs[k].client_id = c
    THEN CHOOSE k \in DOMAIN cs :
           /\ cs[k].client_id = c
           /\ \A o \in DOMAIN cs : cs[o].client_id = c => k <= o
    ELSE 0

\* position of the earliest entry of the history txs with tx_id x, 0 if none
EntryOf(txs, x) ==
    IF \E j \in DOMAIN txs : txs[j].tx_id = x
    THEN CHOOSE j \in DOMAIN txs :
           /\ txs[j].tx_id = x
           /\ \A o \in DOMAIN txs : txs[o].tx_id = x => j <= o
    ELSE 0

DisputeFamily == {"dispute", "resolve", "chargeback"}

\* the account the last transaction t was addressed to, as it was before t
Target == AccountOf(before, t.client_id)

\* t was addressed to an existing unlocked account
TargetUnlocked == Target # 0 /\ ~before[Target].locked

\* t was addressed to an existing locked account
TargetLocked == Target # 0 /\ before[Target].locked

\* the entry of the target's history that t refers to, as it was before t
Referenced == EntryOf(before[Target].transactions, t.tx_id)

ReferencedTx == before[Target].transactions[Referenced]

\* t refers to an entry of the history of an unlocked account
RefersToEntry == TargetUnlocked /\ Referenced # 0

\* the last transaction changed the store
Applied == clients # before

\* C1: after every prefix of every event sequence, every account of the
\* store has total == available + held.
C1_TotalIsAvailablePlusHeld ==
    \A k \in DOMAIN clients :
        clients[k].total_funds
            = clients[k].available_funds + clients[k].held_funds

\* C2: a dispute whose referenced transaction is already disputed is
\* rejected as a no-op: balances, history and flags stay as they were.
C2_SecondDisputeRejected ==
    (t.tx_type = "dispute" /\ RefersToEntry /\ ReferencedTx.disputed)
        => clients = before

\* C3: no event drives available negative: an account with available >= 0
\* before an event has available >= 0 after it.
C3_AvailableStaysNonNegative ==
    \A k \in DOMAIN before :
        before[k].available_funds >= 0 => clients[k].available_funds >= 0

\* C4: whenever a withdrawal is applied, the account afterwards has
\* available >= 0 and total >= 0.
C4_WithdrawalLeavesNonNegative ==
    (t.tx_type = "withdrawal" /\ Applied)
        => LET k == AccountOf(clients, t.client_id)
           IN  /\ k # 0
               /\ clients[k].available_funds >= 0
               /\ clients[k].total_funds >= 0

\* a withdrawal of a positive amount was applied to an account holding funds
C4_Witness ==
    /\ t.tx_type = "withdrawal"
    /\ Applied
    /\ amount(t) > 0
    /\ clients[AccountOf(clients, t.client_id)].held_funds > 0

\* C5: locked is monotonic: an account that is locked is still there and
\* still locked after every later event.
C5_LockedMonotonic ==
    [][\A k \in DOMAIN clients :
          clients[k].locked
              => /\ k \in DOMAIN clients'
                 /\ clients'[k].client_id = clients[k].client_id
                 /\ clients'[k].locked]_vars

\* a deposit of a positive amount was sent to a locked account
C5_Witness ==
    /\ TargetLocked
    /\ t.tx_type = "deposit"
    /\ amount(t) > 0

\* C6: a deposit or a withdrawal addressed to a client whose account is
\* locked leaves the whole store unchanged.
C6_LockedRejectsDepositWithdrawal ==
    (t.tx_type \in {"deposit", "withdrawal"} /\ TargetLocked)
        => clients = before

\* a deposit of a positive amount was sent to the account that the
\* chargeback of one of its own deposits had locked
C6_Witness ==
    /\ t.tx_type = "deposit"
    /\ TargetLocked
    /\ amount(t) > 0
    /\ \E j \in DOMAIN before[Target].transactions :
          before[Target].transactions[j].tx_type = "chargeback"

\* C7: a dispute, resolve or chargeback addressed to a locked account is a
\* no-op: its balances, its history and every disputed flag stay as they
\* were; a locked account is left as it is by every event, so a transaction
\* that is disputed when the account is locked stays disputed, its amount
\* held.
C7_LockedAccountFrozen ==
    /\ (t.tx_type \in DisputeFamily /\ TargetLocked) => clients = before
    /\ \A k \in DOMAIN before :
          before[k].locked
              => /\ clients[k] = before[k]
                 /\ \A j \in DOMAIN before[k].transactions :
                       before[k].transactions[j].disputed
                           => /\ clients[k].transactions[j].disputed
                              /\ clients[k].held_funds = before[k].held_funds

\* a resolve was sent to a locked account for a transaction of its history
\* that was under dispute when the account was locked
C7_Witness ==
    /\ t.tx_type = "resolve"
    /\ TargetLocked
    /\ Referenced # 0
    /\ ReferencedTx.disputed
    /\ amount(ReferencedTx) > 0
    /\ before[Target].held_funds > 0

\* the effect of a chargeback on the account acc, for the entry j of its
\* history, where total changes by delta
ChargedBack(acc, j, delta) ==
    [acc EXCEPT
       !.total_funds = @ + delta,
       !.held_funds = @ - amount(acc.transactions[j]),
       !.transactions = Append([@ EXCEPT ![j].disputed = FALSE], t),
       !.locked = TRUE]

\* the chargeback of a disputed withdrawal, one step
C8_Step ==
    (/\ t.tx_type = "chargeback"
     /\ RefersToEntry
     /\ ReferencedTx.disputed
     /\ ReferencedTx.tx_type = "withdrawal")
        => clients = [before EXCEPT ![Target] =
                        ChargedBack(@, Referenced, amount(ReferencedTx))]

\* a dispute of a withdrawal directly followed by its chargeback
C8_DisputeThenChargeback ==
    (/\ t.tx_type = "dispute"
     /\ RefersToEntry
     /\ ReferencedTx.tx_type = "withdrawal"
     /\ t'.tx_type = "chargeback"
     /\ t'.client_id = t.client_id
     /\ t'.tx_id = t.tx_id)
        => /\ clients'[Target].held_funds = before[Target].held_funds
           /\ clients'[Target].total_funds
                = before[Target].total_funds + amount(ReferencedTx)
           /\ clients'[Target].locked

\* C8: the chargeback of a disputed withdrawal adds the amount to total,
\* takes it from held, leaves available, clears the disputed flag, appends
\* the chargeback to the history and locks the account; relative to the
\* state just before the dispute, held is restored and total is larger by
\* the amount.
C8_WithdrawalChargeback ==
    []C8_Step /\ [][C8_DisputeThenChargeback]_vars

\* a disputed withdrawal of a positive amount was charged back
C8_Witness ==
    /\ t.tx_type = "chargeback"
    /\ RefersToEntry
    /\ ReferencedTx.disputed
    /\ ReferencedTx.tx_type = "withdrawal"
    /\ amount(ReferencedTx) > 0

\* C9: the chargeback of a disputed deposit takes the amount from total and
\* from held, leaves available, clears the disputed flag, appends the
\* chargeback to the history and locks the account.
C9_DepositChargeback ==
    (/\ t.tx_type = "chargeback"
     /\ RefersToEntry
     /\ ReferencedTx.disputed
     /\ ReferencedTx.tx_type = "deposit")
        => clients = [before EXCEPT ![Target] =
                        ChargedBack(@, Referenced, 0 - amount(ReferencedTx))]

\* a disputed deposit of a positive amount was charged back
C9_Witness ==
    /\ t.tx_type = "chargeback"
    /\ RefersToEntry
    /\ ReferencedTx.disputed
    /\ ReferencedTx.tx_type = "deposit"
    /\ amount(ReferencedTx) > 0

\* C10: a resolve whose referenced transaction is in the history of the
\* unlocked target account but is not disputed changes nothing.
C10_ResolveUndisputedNoOp ==
    (t.tx_type = "resolve" /\ RefersToEntry /\ ~ReferencedTx.disputed)
        => clients = before

\* a resolve was sent for an undisputed transaction of an account that
\* holds funds for another, disputed one
C10_Witness ==
    /\ t.tx_type = "resolve"
    /\ RefersToEntry
    /\ ~ReferencedTx.disputed
    /\ amount(ReferencedTx) > 0
    /\ before[Target].held_funds > 0

\* C11: a chargeback whose referenced transaction is in the history of the
\* unlocked target account but is not disputed changes nothing: balances and
\* history stay as they were and the account is not locked.
C11_ChargebackUndisputedNoOp ==
    (t.tx_type = "chargeback" /\ RefersToEntry /\ ~ReferencedTx.disputed)
        => /\ clients = before
           /\ ~clients[Target].locked

\* a chargeback was sent for an undisputed transaction of an account that
\* holds funds for another, disputed one
C11_Witness ==
    /\ t.tx_type = "chargeback"
    /\ RefersToEntry
    /\ ~ReferencedTx.disputed
    /\ amount(ReferencedTx) > 0
    /\ before[Target].held_funds > 0

\* C12: a withdrawal, dispute, resolve or chargeback whose client_id has no
\* account leaves the store unchanged and creates no account.
C12_UnknownClientNoOp ==
    (t.tx_type \in {"withdrawal"} \cup DisputeFamily /\ Target = 0)
        => /\ clients = before
           /\ AccountOf(clients, t.client_id) = 0

\* a withdrawal was sent for a client without account while another client
\* had an account with funds
C12_Witness ==
    /\ t.tx_type = "withdrawal"
    /\ Target = 0
    /\ before # <<>>
    /\ \E k \in DOMAIN before :
          ~before[k].locked /\ before[k].available_funds >= amount(t)

\* C13: the set of accounts only grows, and it grows only in a step that
\* handles a deposit for a client id that has no account yet; no event
\* removes an account.
C13_AccountsOnlyGrow ==
    /\ Len(clients) >= Len(before)
    /\ \A k \in DOMAIN before :
          clients[k].client_id = before[k].client_id
    /\ Len(clients) # Len(before)
          => /\ t.tx_type = "deposit"
             /\ Target = 0
             /\ Len(clients) = Len(before) + 1
             /\ clients[Len(clients)].client_id = t.client_id

\* a deposit opened the account of a second client
C13_Witness ==
    /\ t.tx_type = "deposit"
    /\ Len(before) >= 1
    /\ Len(clients) = Len(before) + 1

\* C14: the store holds at most one account per client_id, also after a
\* deposit to a client whose account is locked.
C14_OneAccountPerClient ==
    \A k \in DOMAIN clients : \A o \in DOMAIN clients :
        clients[k].client_id = clients[o].client_id => k = o

\* a deposit of a positive amount was sent to a client whose account is
\* locked
C14_Witness ==
    /\ t.tx_type = "deposit"
    /\ TargetLocked
    /\ amount(t) > 0
    /\ Len(clients) = Len(before)

\* C15: in the engine of main.rs a deposit for a client whose account is
\* locked has no effect on the clients collection: the locked account keeps
\* its balances and the collection holds exactly one entry for the client.
C15_MainLockedRejectsDeposit ==
    (t.tx_type = "deposit" /\ TargetLocked)
        => /\ clients = before
           /\ Cardinality({k \in DOMAIN clients :
                             clients[k].client_id = t.client_id}) = 1

\* C16: a dispute, resolve or chargeback for a client that refers to a tx_id
\* not in that client's own history is a no-op on the whole store, also when
\* the tx_id is in the history of another client, whose balances and
\* disputed flags stay as they were.
C16_ForeignTxNoOp ==
    (t.tx_type \in DisputeFamily /\ (Target = 0 \/ Referenced = 0))
        => clients = before

\* a dispute was sent for an unlocked client with a tx_id that only the
\* history of another unlocked client holds
C16_Witness ==
    /\ t.tx_type = "dispute"
    /\ TargetUnlocked
    /\ Referenced = 0
    /\ \E k \in DOMAIN before :
          /\ k # Target
          /\ ~before[k].locked
          /\ EntryOf(before[k].transactions, t.tx_id) # 0

\* C17: a dispute of an undisputed transaction in the history of the
\* unlocked target account takes the amount of that transaction from
\* available, adds it to held, leaves total and locked, sets the disputed
\* flag of the transaction and appends the dispute to the history.
C17_DisputeEffect ==
    (t.tx_type = "dispute" /\ RefersToEntry /\ ~ReferencedTx.disputed)
        => clients = [before EXCEPT ![Target] =
                        [@ EXCEPT
                           !.available_funds = @ - amount(ReferencedTx),
                           !.held_funds = @ + amount(ReferencedTx),
                           !.transactions =
                              Append([@ EXCEPT ![Referenced].disputed = TRUE],
                                     t)]]

\* an undisputed transaction of a positive amount was disputed
C17_Witness ==
    /\ t.tx_type = "dispute"
    /\ RefersToEntry
    /\ ~ReferencedTx.disputed
    /\ amount(ReferencedTx) > 0

\* C18: a dispute of an undisputed deposit or withdrawal of an unlocked
\* account, followed by the resolve of the same tx_id, restores available,
\* held and total to their values before the dispute and leaves the
\* transaction undisputed and the account unlocked.
C18_DisputeResolveRoundTrip ==
    [][(/\ t.tx_type = "dispute"
        /\ RefersToEntry
        /\ ~ReferencedTx.disputed
        /\ t'.tx_type = "resolve"
        /\ t'.client_id = t.client_id
        /\ t'.tx_id = t.tx_id)
          => /\ clients'[Target].available_funds
                  = before[Target].available_funds
             /\ clients'[Target].held_funds = before[Target].held_funds
             /\ clients'[Target].total_funds = before[Target].total_funds
             /\ ~clients'[Target].transactions[Referenced].disputed
             /\ ~clients'[Target].locked
             /\ clients[Target].held_funds
                  = before[Target].held_funds + amount(ReferencedTx)]_vars

\* a transaction of a positive amount was resolved right after its dispute
C18_Witness ==
    /\ t.tx_type = "resolve"
    /\ RefersToEntry
    /\ ReferencedTx.disputed
    /\ amount(ReferencedTx) > 0
    /\ LET h == before[Target].transactions
       IN  h[Len(h)].tx_type = "dispute" /\ h[Len(h)].tx_id = t.tx_id

\* C19: a withdrawal is applied exactly when an unlocked account of its
\* client exists with available >= amount and total >= amount; it then takes
\* the amount from available and from total, leaves held and appends the
\* record; otherwise nothing changes.
C19_WithdrawalEffect ==
    t.tx_type = "withdrawal"
        => IF /\ TargetUnlocked
              /\ before[Target].available_funds >= amount(t)
              /\ before[Target].total_funds >= amount(t)
           THEN clients = [before EXCEPT ![Target] =
                             [@ EXCEPT
                                !.available_funds = @ - amount(t),
                                !.total_funds = @ - amount(t),
                                !.transactions = Append(@, t)]]
           ELSE clients = before

\* a withdrawal took the whole available balance of an account
C19_Witness ==
    /\ t.tx_type = "withdrawal"
    /\ TargetUnlocked
    /\ amount(t) > 0
    /\ before[Target].available_funds = amount(t)
    /\ clients # before

\* C20: a deposit for a client without account opens an unlocked account
\* with available = total = amount, held = 0 and the deposit as its history;
\* a deposit for an unlocked account adds the amount to available and total,
\* leaves held, appends the record and opens no second account.
C20_DepositEffect ==
    t.tx_type = "deposit"
        => /\ Target = 0
                => clients = Append(before,
                                    [client_id |-> t.client_id,
                                     available_funds |-> amount(t),
                                     held_funds |-> 0,
                                     total_funds |-> amount(t),
                                     locked |-> FALSE,
                                     transactions |-> <<t>>])
           /\ TargetUnlocked
                => clients = [before EXCEPT ![Target] =
                                [@ EXCEPT
                                   !.available_funds = @ + amount(t),
                                   !.total_funds = @ + amount(t),
                                   !.transactions = Append(@, t)]]

\* a deposit of a positive amount was added to an unlocked account that
\* holds funds under dispute
C20_Witness ==
    /\ t.tx_type = "deposit"
    /\ TargetUnlocked
    /\ amount(t) > 0
    /\ before[Target].held_funds > 0

\* the accounts of the store cs that belong to client c, in their order
OwnAccounts(cs, c) ==
    IF AccountOf(cs, c) = 0 THEN <<>> ELSE <<cs[AccountOf(cs, c)]>>

\* C21: accounts never interact: an event with client_id c leaves every
\* account of another client as it was (balances, lock, history, disputed
\* flags), and what it does to the account of c is what it does to a store
\* that holds that account alone, so the state of an account depends only on
\* the events addressed to its client.
C21_AccountsNeverInteract ==
    /\ \A k \in DOMAIN before :
          before[k].client_id # t.client_id
              => k \in DOMAIN clients /\ clients[k] = before[k]
    /\ \A k \in DOMAIN clients :
          clients[k].client_id # t.client_id => k \in DOMAIN before
    /\ OwnAccounts(clients, t.client_id)
          = handle_transaction(t, OwnAccounts(before, t.client_id))

\* a dispute was applied to the account of one client while the account of
\* another unlocked client held an undisputed transaction of the same tx_id
C21_Witness ==
    /\ t.tx_type = "dispute"
    /\ Applied
    /\ \E k \in DOMAIN before :
          /\ before[k].client_id # t.client_id
          /\ ~before[k].locked
          /\ EntryOf(before[k].transactions, t.tx_id) # 0
          /\ ~before[k].transactions[
                 EntryOf(before[k].transactions, t.tx_id)].disputed

\* the history txs with every disputed flag cleared
Undisputed(txs) == [j \in DOMAIN txs |-> [txs[j] EXCEPT !.disputed = FALSE]]

\* C22: the history of an account is the ordered sequence of the events
\* applied to it: an event that changes the account appends itself, once, at
\* the end of the history; an event that is rejected appends nothing and
\* leaves the history as it was; no event removes or reorders an earlier
\* entry (only disputed flags change); a new account starts with the history
\* of its opening deposit alone.
C22_HistoryIsAppliedEvents ==
    /\ \A k \in DOMAIN before :
          /\ k \in DOMAIN clients
          /\ LET h == before[k].transactions
                 g == clients[k].transactions
             IN  IF clients[k] = before[k]
                 THEN g = h
                 ELSE /\ before[k].client_id = t.client_id
                      /\ g = Append(SubSeq(g, 1, Len(h)), t)
                      /\ Undisputed(SubSeq(g, 1, Len(h))) = Undisputed(h)
    /\ \A k \in DOMAIN clients :
          k \notin DOMAIN before => clients[k].transactions = <<t>>

\* a resolve was applied to an account whose history held three or more
\* entries, and cleared the disputed flag of one of them
C22_Witness ==
    /\ t.tx_type = "resolve"
    /\ Applied
    /\ Target # 0
    /\ Len(before[Target].transactions) >= 3
    /\ Len(clients[Target].transactions)
          = Len(before[Target].transactions) + 1

\* the amounts a withdrawal record of the input may carry, zero included
WithdrawalAmounts == 0..MaxAmount

\* C23: the test total >= amount of the withdrawal guard is redundant: in
\* every reachable state every unlocked account has held >= 0 and
\* total >= available, so that available >= amount implies total >= amount
\* for every non-negative amount; a withdrawal that passes the test of
\* available passes the whole guard.
C23_TotalGuardRedundant ==
    /\ \A k \in DOMAIN clients :
          ~clients[k].locked
              => /\ clients[k].held_funds >= 0
                 /\ clients[k].total_funds >= clients[k].available_funds
                 /\ \A a \in WithdrawalAmounts :
                       clients[k].available_funds >= a
                           => clients[k].total_funds >= a
    /\ (/\ t.tx_type = "withdrawal"
        /\ TargetUnlocked
        /\ before[Target].available_funds >= amount(t))
          => sufficient_funds(t, before[Target]) /\ Applied

\* a withdrawal of a positive amount passed the test of available on an
\* unlocked account that held funds under dispute, total above available
C23_Witness ==
    /\ t.tx_type = "withdrawal"
    /\ TargetUnlocked
    /\ amount(t) > 0
    /\ before[Target].available_funds >= amount(t)
    /\ before[Target].held_funds > 0
    /\ before[Target].total_funds > before[Target].available_funds

\* the sum of the amounts of the entries of the history txs that are
\* under dispute
RECURSIVE DisputedSum(_)
DisputedSum(txs) ==
    IF txs = <<>> THEN 0
    ELSE (IF Head(txs).disputed THEN amount(Head(txs)) ELSE 0)
            + DisputedSum(Tail(txs))

\* C24: in every reachable state the held funds of every account equal the
\* sum of the amounts of the entries of its history whose disputed flag is
\* true; an account with no disputed entry has held == 0.
C24_HeldIsSumOfDisputed ==
    \A k \in DOMAIN clients :
        clients[k].held_funds = DisputedSum(clients[k].transactions)

Movements == {"deposit", "withdrawal"}

\* C25: in every reachable state, in the history of every account, the
\* earliest entry of each tx_id is a deposit or a withdrawal; the lookup by
\* tx_id of dispute, resolve and chargeback, which takes the first match,
\* therefore never selects a dispute, resolve or chargeback marker, and only
\* deposit and withdrawal entries ever have disputed == true.
C25_LookupSelectsMovement ==
    /\ \A k \in DOMAIN clients :
          LET h == clients[k].transactions
          IN  \A j \in DOMAIN h :
                 /\ h[EntryOf(h, h[j].tx_id)].tx_type \in Movements
                 /\ h[find_tx(h[j], h)].tx_type \in Movements
                 /\ h[j].disputed => h[j].tx_type \in Movements
    /\ (t.tx_type \in DisputeFamily /\ RefersToEntry)
          => /\ ReferencedTx.tx_type \in Movements
             /\ find_tx(t, before[Target].transactions) = Referenced

\* a dispute, resolve or chargeback was applied for a tx_id of which the
\* history already held a dispute marker after the deposit or withdrawal
C25_Witness ==
    /\ t.tx_type \in DisputeFamily
    /\ RefersToEntry
    /\ Applied
    /\ \E j \in DOMAIN before[Target].transactions :
          /\ j > Referenced
          /\ before[Target].transactions[j].tx_id = t.tx_id
          /\ before[Target].transactions[j].tx_type = "dispute"

\* the account c has total == available + held
Balanced(c) == c.total_funds = c.available_funds + c.held_funds

\* C26: in every reachable state every unlocked account has
\* total == available + held; an account loses the equality only in the step
\* that sets its locked flag to true.
C26_UnlockedBalanced ==
    /\ \A k \in DOMAIN clients :
          ~clients[k].locked => Balanced(clients[k])
    /\ \A k \in DOMAIN before :
          (Balanced(before[k]) /\ ~Balanced(clients[k]))
              => ~before[k].locked /\ clients[k].locked
    /\ \A k \in DOMAIN clients :
          k \notin DOMAIN before => Balanced(clients[k])

\* the chargeback of a disputed withdrawal locked an account that had
\* total == available + held and left it without the equality
C26_Witness ==
    /\ t.tx_type = "chargeback"
    /\ RefersToEntry
    /\ Balanced(before[Target])
    /\ ~Balanced(clients[Target])
    /\ clients[Target].locked

====
